---- MODULE Spec2Model ----
(***************************************************************************)
(* Model of the noti-bot notification scheduler: the NotificationScheduler *)
(* (bot/scheduler/manager.py), the per-record NotificationTask             *)
(* (bot/scheduler/task.py), and the gateway / command handlers that drive  *)
(* them (bot/main.py, bot/commands/add.py, bot/commands/delete.py).        *)
(*                                                                         *)
(* Time is an integer clock `now`.  One unit stands for 5 seconds: the     *)
(* default PREFETCH_BUFFER ('5s') is 1 unit, the margin of add.py:107 is 1 *)
(* unit, and DELIVER_LATE is taken as 2 units (DELIVER_LATE='10s' in the   *)
(* environment; config.py:19 reads it from there).                         *)
(*                                                                         *)
(* asyncio runs one coroutine at a time, so an action is everything a      *)
(* handler or task does between two real suspensions.  A task suspends in  *)
(* asyncio.sleep (lines 104, 130 via _wait_until), in the pre-fetch        *)
(* requests fetch_user / channel.webhooks (lines 109, 118; nothing happens *)
(* between them, so they are one suspension "prefetching") and in          *)
(* channel.send (line 240).  task.cancel() is only ever called on a task   *)
(* that is suspended, not yet started, or finished; CancelledError is a    *)
(* BaseException, so no `except Exception` of task.py catches it and the   *)
(* task ends at line 148 having done nothing more.                         *)
(***************************************************************************)
EXTENDS Integers, Sequences, FiniteSets, TLC

\* Python's None (an absent end_time, max_occurrences, last_triggered...)
None == 0 - 99

\* ------------------------------------------------------------------------
\* Program constants
DELIVER_LATE == 2
PREFETCH_BUFFER == 1
ADD_MARGIN == 1

\* ------------------------------------------------------------------------
\* Bounds of the model
MaxTime == 5
MaxRecs == 2
MaxTasks == 2
MaxStart == 2
MaxInterval == 2
MaxEnd == 3
MaxOcc == 2
MaxFaults == 1

Ids == 1..MaxRecs
Slots == 1..MaxTasks

VARIABLES
    now,        \* datetime.now(UTC)
    db,         \* table noti: id -> row (live = FALSE: no such row)
    tasks,      \* NotificationScheduler.tasks: id -> task slot, 0 = no entry
    tk,         \* the asyncio tasks ever created: slot -> NotificationTask
    nextId,     \* sqlite AUTOINCREMENT: the id the next INSERT gets
    nextTask,   \* the next unused task slot
    orig,       \* history: the row as it was inserted
    sent,       \* history: id -> the deliveries made, [t: occurrence, k: task]
    deleted,    \* history: ids removed by /noti del
    faults,     \* history: failures of the environment so far
    ev,         \* history: the handler or task step that ran last
    call        \* a call of one of the helper functions: its input, its result

vars == <<now, db, tasks, tk, nextId, nextTask, orig, sent, deleted, faults, ev,
          call>>

\* ------------------------------------------------------------------------
\* Data

BlankRow ==
    [live |-> FALSE, start |-> None, rep |-> FALSE, iv |-> None,
     endT |-> None, maxOcc |-> None, lastTrig |-> None]

BlankCfg ==
    [start |-> None, rep |-> FALSE, iv |-> None,
     endT |-> None, maxOcc |-> None, lastTrig |-> None]

FreeTask ==
    [pc |-> "free", nid |-> 0, cfg |-> BlankCfg, now0 |-> None, nt |-> None,
     sched |-> None, occ |-> 0, rc |-> 0, at |-> None,
     disp |-> <<>>, origin |-> "none"]

\* NotificationConfig.__init__: the fields of the row; last_triggered is
\* attached by the caller (manager.py 78-84) or absent (getattr default None)
NotificationConfig(row, lt) ==
    [start |-> row.start, rep |-> row.rep, iv |-> row.iv,
     endT |-> row.endT, maxOcc |-> row.maxOcc, lastTrig |-> lt]

\* The rows of the model give their interval in seconds (interval_unit 's',
\* interval_value = 5 * iv).  interval_to_timedelta (utils.py 202-208) builds
\* the timedelta of the value in every unit before it picks one, and
\* timedelta(weeks=value) raises OverflowError above 999999999 days: the
\* smallest iv for which NotificationConfig(...) raises (config.py 78-81)
HugeInterval == 999999999 \div 35 + 1

config_raises(row) ==
    row.rep /\ row.iv # None /\ row.iv # 0 /\ 7 * (5 * row.iv) > 999999999

\* config.interval_delta
interval_delta(c) == IF c.rep /\ c.iv # None /\ c.iv # 0 THEN c.iv ELSE None

\* `self.config.is_repeating and self.config.interval_delta`
Repeating(c) == c.rep /\ interval_delta(c) # None

\* truth value of an optional integer (None and 0 are false)
Truthy(x) == x # None /\ x # 0

NewTask(id, c, how) ==
    [FreeTask EXCEPT !.pc = "created", !.nid = id, !.cfg = c, !.origin = how]

Suspended == {"cu_sending", "prefetch_wait", "prefetching", "dispatch_wait", "sending"}
Live == Suspended \cup {"created"}

Running(k) == tk[k].pc \in Live

RunningFor(id) == {k \in Slots : tk[k].nid = id /\ Running(k)}

\* ------------------------------------------------------------------------
\* NotificationTask: what a task does between two suspensions, computed on a
\* frame f = [k |-> its slot, t |-> the task, row |-> the row of its record,
\* sent |-> the deliveries made for the record].  Inputs of a
\* step: nw = datetime.now(UTC), ch = bot.get_channel finds the channel,
\* dbok = the sqlite statements of this step succeed (otherwise the first
\* one raises).

\* UPDATE noti SET last_triggered = when WHERE id = notif_id (lines 248-253)
WriteLast(f, when) ==
    IF f.row.live THEN [f EXCEPT !.row.lastTrig = when] ELSE f

\* NotificationScheduler.delete_record
delete_record(f) == [f EXCEPT !.row = BlankRow]

\* a skip that consumes the slot and never deletes the record
SkipLateKeepsRecord(f, when) ==
    LET old    == f.t.cfg.maxOcc
        newmax == IF old # None THEN old - 1 ELSE None
        g1     == WriteLast(f, when)
        g2     == IF old # None /\ g1.row.live
                  THEN [g1 EXCEPT !.row.maxOcc = newmax] ELSE g1
    IN  [g2 EXCEPT !.t.cfg.maxOcc = newmax]

\* a skip that keeps the count of the store as it is
SkipLateStoreStale(f, when) ==
    LET old    == f.t.cfg.maxOcc
        newmax == IF old # None THEN old - 1 ELSE None
        g1     == WriteLast(f, when)
        g3     == [g1 EXCEPT !.t.cfg.maxOcc = newmax]
    IN  IF newmax # None /\ newmax <= 0 THEN delete_record(g3) ELSE g3

\* _dispatch past the deadline, lines 256-286
SkipLate(f, when) ==
    LET old    == f.t.cfg.maxOcc
        newmax == IF old # None THEN old - 1 ELSE None
        g1     == WriteLast(f, when)
        g2     == IF old # None /\ g1.row.live
                  THEN [g1 EXCEPT !.row.maxOcc = newmax] ELSE g1
        g3     == [g2 EXCEPT !.t.cfg.maxOcc = newmax]
    IN  IF newmax # None /\ newmax <= 0 THEN delete_record(g3) ELSE g3

\* lines 101-104 and the pre-fetch requests that follow
LoopTop(f, nw) ==
    IF f.t.sched - PREFETCH_BUFFER > nw
    THEN [f EXCEPT !.t.pc = "prefetch_wait"]
    ELSE [f EXCEPT !.t.pc = "prefetching"]

\* a cleanup that returns and leaves the record in the table
CleanupKeepsRecord(f, dbok) ==
    IF dbok THEN [f EXCEPT !.t.pc = "done"] ELSE [f EXCEPT !.t.pc = "failed"]

\* lines 145-151: delete the record; an sqlite error lands in `except Exception`
Cleanup(f, dbok) ==
    IF dbok THEN [delete_record(f) EXCEPT !.t.pc = "done"]
    ELSE [f EXCEPT !.t.pc = "failed"]

\* a loop control that schedules the next occurrence one interval from now
LoopControlFromNow(f, nw, dbok) ==
    LET c   == f.t.cfg
        occ == f.t.occ + 1
        g   == [f EXCEPT !.t.occ = occ]
        nxt == nw + c.iv
    IN  IF ~c.rep THEN Cleanup(g, dbok)
        ELSE IF Truthy(c.maxOcc) /\ occ >= c.maxOcc THEN Cleanup(g, dbok)
        ELSE IF c.endT # None /\ nxt > c.endT THEN Cleanup(g, dbok)
        ELSE LoopTop([g EXCEPT !.t.sched = nxt], nw)

\* a loop control that does not look at end_time
LoopControlNoEnd(f, nw, dbok) ==
    LET c   == f.t.cfg
        occ == f.t.occ + 1
        g   == [f EXCEPT !.t.occ = occ]
        nxt == f.t.sched + c.iv
    IN  IF ~c.rep THEN Cleanup(g, dbok)
        ELSE IF Truthy(c.maxOcc) /\ occ >= c.maxOcc THEN Cleanup(g, dbok)
        ELSE LoopTop([g EXCEPT !.t.sched = nxt], nw)

\* lines 133-143
LoopControl(f, nw, dbok) ==
    LET c   == f.t.cfg
        occ == f.t.occ + 1
        g   == [f EXCEPT !.t.occ = occ]
        nxt == f.t.sched + c.iv
    IN  IF ~c.rep THEN Cleanup(g, dbok)
        ELSE IF Truthy(c.maxOcc) /\ occ >= c.maxOcc THEN Cleanup(g, dbok)
        ELSE IF c.endT # None /\ nxt > c.endT THEN Cleanup(g, dbok)
        ELSE LoopTop([g EXCEPT !.t.sched = nxt], nw)

\* a _dispatch that has no deadline: it sends whenever the channel is there
DispatchLiveNoDeadline(f, nw, ch, dbok) ==
    LET g == [f EXCEPT !.t.disp = Append(@, f.t.sched)]
    IN  IF ~ch THEN LoopControl(g, nw, dbok)
        ELSE [g EXCEPT !.t.pc = "sending", !.t.at = nw]

\* a _dispatch whose too-late path ends run() then and there, without cleanup
DispatchLiveLateReturns(f, nw, ch, dbok) ==
    LET when == f.t.sched
        g    == [f EXCEPT !.t.disp = Append(@, when)]
    IN  IF ~ch THEN LoopControl(g, nw, dbok)
        ELSE IF nw < when + DELIVER_LATE
             THEN [g EXCEPT !.t.pc = "sending", !.t.at = nw]
        ELSE IF ~dbok THEN [g EXCEPT !.t.pc = "failed"]
        ELSE [SkipLate(g, when) EXCEPT !.t.pc = "done"]

\* line 132: _dispatch(scheduled_time) up to its suspension or its return
DispatchLive(f, nw, ch, dbok) ==
    LET when == f.t.sched
        g    == [f EXCEPT !.t.disp = Append(@, when)]
    IN  IF ~ch THEN LoopControl(g, nw, dbok)
        ELSE IF nw < when + DELIVER_LATE
             THEN [g EXCEPT !.t.pc = "sending", !.t.at = nw]
        ELSE IF ~dbok THEN [g EXCEPT !.t.pc = "failed"]
        ELSE LoopControl(SkipLate(g, when), nw, dbok)

\* a loop that dispatches as soon as the pre-fetch is over, without the wait
WaitDispatchNoWait(f, nw, ch, dbok) == DispatchLive(f, nw, ch, dbok)

\* line 130: _wait_until(scheduled_time), lines 153-163
WaitDispatch(f, nw, ch, dbok) ==
    IF f.t.sched > nw THEN [f EXCEPT !.t.pc = "dispatch_wait"]
    ELSE DispatchLive(f, nw, ch, dbok)

\* a delivery whose failing UPDATE takes the record with it
SendDoneLiveDrop(f, nw, ok, dbok) ==
    IF ~dbok THEN [delete_record(f) EXCEPT !.t.pc = "failed", !.t.at = None]
    ELSE LoopControl(WriteLast([f EXCEPT !.t.at = None], f.t.sched), nw, dbok)

\* a delivery that marks the occurrence as triggered only when it was sent
SendDoneLiveMarkOnSuccess(f, nw, ok, dbok) ==
    LET when == f.t.sched
        g    == [f EXCEPT !.sent = IF ok THEN Append(@, [t |-> when, k |-> f.k])
                                           ELSE @,
                          !.t.at = None]
    IN  IF ~dbok THEN [g EXCEPT !.t.pc = "failed"]
        ELSE LoopControl(IF ok THEN WriteLast(g, when) ELSE g, nw, dbok)

\* a delivery that consumes one of the max_occurrences when it was sent
SendDoneLiveCountsDown(f, nw, ok, dbok) ==
    LET when == f.t.sched
        old  == f.t.cfg.maxOcc
        g    == [f EXCEPT !.sent = IF ok THEN Append(@, [t |-> when, k |-> f.k])
                                           ELSE @,
                          !.t.at = None,
                          !.t.cfg.maxOcc = IF ok /\ old # None THEN old - 1 ELSE old,
                          !.row.maxOcc = IF ok /\ old # None /\ f.row.live
                                         THEN old - 1 ELSE @]
    IN  IF ~dbok THEN [g EXCEPT !.t.pc = "failed"]
        ELSE LoopControl(WriteLast(g, when), nw, dbok)

\* lines 240-254 after channel.send returned (ok) or raised (~ok), then on
SendDoneLive(f, nw, ok, dbok) ==
    LET when == f.t.sched
        g    == [f EXCEPT !.sent = IF ok THEN Append(@, [t |-> when, k |-> f.k])
                                           ELSE @,
                          !.t.at = None]
    IN  IF ~dbok THEN [g EXCEPT !.t.pc = "failed"]
        ELSE LoopControl(WriteLast(g, when), nw, dbok)

\* lines 56-70: the next run that run() computes on entry and logs (line 71)
next_sched(c, nw) ==
    IF Repeating(c)
    THEN LET base == IF c.lastTrig # None THEN c.lastTrig ELSE c.start
             diff == nw - base
         IN  IF diff < 0 THEN base
             ELSE base + (diff \div interval_delta(c) + 1) * interval_delta(c)
    ELSE c.start

\* lines 93-99
EnterLoop(f, nw) ==
    LET c == f.t.cfg
        s == IF c.lastTrig # None /\ Repeating(c)
             THEN c.lastTrig + interval_delta(c) ELSE c.start
    IN  LoopTop([f EXCEPT !.t.sched = s, !.t.occ = 0,
                          !.t.now0 = None, !.t.nt = None], nw)

\* a catch-up that leaves the occurrence due at this very moment to the loop
CatchUpCondStrict(c, nt, n0) ==
    Repeating(c) /\ nt < n0 /\ n0 - nt <= DELIVER_LATE

\* lines 78 and 81: the condition of the catch-up loop, n0 being the `now`
\* of line 76
CatchUpCond(c, nt, n0) ==
    Repeating(c) /\ nt <= n0 /\ n0 - nt <= DELIVER_LATE

\* lines 81-91: the catch-up loop from next_time = f.t.nt, until a send
\* suspends it or its condition fails
RECURSIVE CatchUp(_, _, _, _)
CatchUp(f, nw, ch, dbok) ==
    LET c  == f.t.cfg
        nt == f.t.nt
    IN  IF CatchUpCond(c, nt, f.t.now0)
        THEN LET g    == [f EXCEPT !.t.disp = Append(@, nt)]
                 step == nt + interval_delta(c)
             IN  IF ~ch
                 THEN CatchUp([g EXCEPT !.t.rc = @ + 1, !.t.nt = step], nw, ch, dbok)
                 ELSE IF nw < nt + DELIVER_LATE
                      THEN [g EXCEPT !.t.pc = "cu_sending", !.t.at = nw]
                 ELSE IF ~dbok
                      THEN CatchUp([g EXCEPT !.t.nt = step], nw, ch, dbok)
                 ELSE CatchUp([SkipLate(g, nt) EXCEPT !.t.rc = @ + 1, !.t.nt = step],
                              nw, ch, dbok)
        ELSE EnterLoop(f, nw)

\* lines 76-80: entry of run()
RunStart(f, nw, ch, dbok) ==
    LET c    == f.t.cfg
        last == IF c.lastTrig # None THEN c.lastTrig ELSE c.start
        g    == [f EXCEPT !.t.now0 = nw,
                          !.t.nt = IF Repeating(c) THEN last + interval_delta(c) ELSE None]
    IN  CatchUp(g, nw, ch, dbok)

\* a catch-up that a failing UPDATE ends, and the task with it
SendDoneCatchUpAbort(f, nw, ok, ch, dbok) ==
    LET nt   == f.t.nt
        g    == [f EXCEPT !.sent = IF ok THEN Append(@, [t |-> nt, k |-> f.k])
                                           ELSE @,
                          !.t.at = None]
    IN  IF ~dbok THEN [g EXCEPT !.t.pc = "failed"]
        ELSE CatchUp([WriteLast(g, nt) EXCEPT !.t.rc = @ + 1,
                                              !.t.nt = nt + interval_delta(f.t.cfg)],
                     nw, ch, dbok)

\* a catch-up that dispatches the same occurrence again after its send
SendDoneCatchUpAgain(f, nw, ok, ch, dbok) ==
    LET nt   == f.t.nt
        g    == [f EXCEPT !.sent = IF ok THEN Append(@, [t |-> nt, k |-> f.k])
                                           ELSE @,
                          !.t.at = None]
        h    == IF dbok THEN [WriteLast(g, nt) EXCEPT !.t.rc = @ + 1] ELSE g
    IN  IF nw < nt + DELIVER_LATE
        THEN [h EXCEPT !.t.pc = "cu_sending", !.t.at = nw,
                       !.t.disp = Append(@, nt)]
        ELSE CatchUp([h EXCEPT !.t.nt = nt + interval_delta(f.t.cfg)], nw, ch, dbok)

\* lines 83-91 after the catch-up channel.send returned or raised
SendDoneCatchUp(f, nw, ok, ch, dbok) ==
    LET nt   == f.t.nt
        g    == [f EXCEPT !.sent = IF ok THEN Append(@, [t |-> nt, k |-> f.k])
                                           ELSE @,
                          !.t.at = None]
        h    == IF dbok THEN [WriteLast(g, nt) EXCEPT !.t.rc = @ + 1] ELSE g
    IN  CatchUp([h EXCEPT !.t.nt = nt + interval_delta(f.t.cfg)], nw, ch, dbok)

Frame(k) ==
    [k |-> k, t |-> tk[k], row |-> db[tk[k].nid], sent |-> sent[tk[k].nid]]

\* a cancellation handler that cleans up as the normal exit of run() does
OnCancelCleanup(f) ==
    [f EXCEPT !.row = BlankRow,
              !.t = [FreeTask EXCEPT !.pc = "cancelled", !.nid = f.t.nid,
                                     !.origin = f.t.origin]]

\* lines 148-149: CancelledError reaches the task at its suspension point and
\* is logged (the locals of the coroutine are gone: only its identity is kept)
OnCancel(f) ==
    [f EXCEPT !.t = [FreeTask EXCEPT !.pc = "cancelled", !.nid = f.t.nid,
                                     !.origin = f.t.origin]]

\* the environment of one step: channel.send succeeds, get_channel finds the
\* channel, sqlite works; each failure is counted against MaxFaults
EnvsUpTo(limit) ==
    {e \in [ok : BOOLEAN, ch : BOOLEAN, dbok : BOOLEAN] :
        faults + (IF e.ok THEN 0 ELSE 1) + (IF e.ch THEN 0 ELSE 1)
               + (IF e.dbok THEN 0 ELSE 1) <= limit}

Envs == EnvsUpTo(MaxFaults)

Failures(e) == (IF e.ok THEN 0 ELSE 1) + (IF e.ch THEN 0 ELSE 1)
                   + (IF e.dbok THEN 0 ELSE 1)

\* a write-back whose DELETE has no WHERE clause: it empties the table
CommitUnscoped(k, f, what) ==
    /\ tk' = [tk EXCEPT ![k] = f.t]
    /\ db' = IF db[tk[k].nid].live /\ ~f.row.live
             THEN [i \in Ids |-> BlankRow]
             ELSE [db EXCEPT ![tk[k].nid] = f.row]
    /\ sent' = [sent EXCEPT ![tk[k].nid] = f.sent]
    /\ ev' = [op |-> what, id |-> tk[k].nid, k |-> k]
    /\ UNCHANGED <<now, tasks, nextId, nextTask, orig, deleted, call>>

\* a task step: the frame it ends in is written back
Commit(k, f, what) ==
    /\ tk' = [tk EXCEPT ![k] = f.t]
    /\ db' = [db EXCEPT ![tk[k].nid] = f.row]
    /\ sent' = [sent EXCEPT ![tk[k].nid] = f.sent]
    /\ ev' = [op |-> what, id |-> tk[k].nid, k |-> k]
    /\ UNCHANGED <<now, tasks, nextId, nextTask, orig, deleted, call>>

\* the first step of run(), in one of the environments envs
TaskStartIn(k, envs) ==
    /\ tk[k].pc = "created"
    /\ \E e \in envs :
          /\ e.ok
          /\ faults' = faults + Failures(e)
          /\ Commit(k, RunStart(Frame(k), now, e.ch, e.dbok), "run")

TaskStart(k) == TaskStartIn(k, Envs)

\* the return of the channel.send of a catch-up dispatch
CatchUpSentIn(k, envs) ==
    /\ tk[k].pc = "cu_sending"
    /\ \E e \in envs :
          /\ faults' = faults + Failures(e)
          /\ Commit(k, SendDoneCatchUp(Frame(k), now, e.ok, e.ch, e.dbok), "catchup_sent")

CatchUpSent(k) == CatchUpSentIn(k, Envs)

PrefetchWake(k) ==
    /\ tk[k].pc = "prefetch_wait"
    /\ now >= tk[k].sched - PREFETCH_BUFFER
    /\ faults' = faults
    /\ Commit(k, [Frame(k) EXCEPT !.t.pc = "prefetching"], "prefetch_wake")

\* a pre-fetch whose failing lookup is not caught: it ends the task
PrefetchedOrRaise(f, nw, pf, ch, dbok) ==
    IF pf THEN WaitDispatch(f, nw, ch, dbok) ELSE [f EXCEPT !.t.pc = "failed"]

\* lines 106-130: the pre-fetch lookups have returned (pf) or one of them has
\* raised (~pf); every exception of fetch_user and of channel.webhooks is
\* caught and logged (lines 110-114, 119-128), then the task waits for the
\* scheduled time
Prefetched(f, nw, pf, ch, dbok) == WaitDispatch(f, nw, ch, dbok)

\* the environments in which the request of the step succeeds
EnvsOk == {e \in Envs : e.ok}

\* the environments in which sqlite works
EnvsDbOk == {e \in Envs : e.dbok}

\* the return of the pre-fetch requests (e.ok: none of them raised), in one
\* of the environments envs
PrefetchDoneIn(k, envs) ==
    /\ tk[k].pc = "prefetching"
    /\ \E e \in envs :
          /\ faults' = faults + Failures(e)
          /\ Commit(k, Prefetched(Frame(k), now, e.ok, e.ch, e.dbok),
                    IF e.ok THEN "prefetch_done" ELSE "prefetch_failed")

PrefetchDone(k) == PrefetchDoneIn(k, EnvsOk)

DispatchWakeIn(k, envs) ==
    /\ tk[k].pc = "dispatch_wait"
    /\ now >= tk[k].sched
    /\ \E e \in envs :
          /\ e.ok
          /\ faults' = faults + Failures(e)
          /\ Commit(k, DispatchLive(Frame(k), now, e.ch, e.dbok), "dispatch_wake")

DispatchWake(k) == DispatchWakeIn(k, Envs)

LiveSentIn(k, envs) ==
    /\ tk[k].pc = "sending"
    /\ \E e \in envs :
          /\ e.ch
          /\ faults' = faults + Failures(e)
          /\ Commit(k, SendDoneLive(Frame(k), now, e.ok, e.dbok), "live_sent")

LiveSent(k) == LiveSentIn(k, Envs)

\* ------------------------------------------------------------------------
\* NotificationScheduler

\* asyncio.Task.cancel() on the task of slot k: a finished task is left as
\* it is, any other gets CancelledError
cancel(k) == IF Running(k) THEN OnCancel(Frame(k)) ELSE Frame(k)

LiveRows == {i \in Ids : db[i].live}

\* the rows load_existing_notifications gets to: it takes them in the order
\* of the SELECT and NotificationConfig(...) of line 64 may raise, which ends
\* the loop and the handler
Loadable == {i \in LiveRows : \A j \in LiveRows : j <= i => ~config_raises(db[j])}

\* the slot of the task that load_existing_notifications creates for row i
LoadSlot(i) == nextTask + Cardinality({j \in Loadable : j < i})

\* load_existing_notifications, manager.py 42-87
load_existing_notifications(what) ==
    /\ nextTask + Cardinality(Loadable) - 1 <= MaxTasks
    /\ tk' = [k \in Slots |->
                IF \E i \in Loadable : LoadSlot(i) = k
                THEN LET i == CHOOSE j \in Loadable : LoadSlot(j) = k
                     IN  NewTask(i, NotificationConfig(db[i], db[i].lastTrig), "load")
                ELSE tk[k]]
    /\ tasks' = [i \in Ids |-> IF i \in Loadable THEN LoadSlot(i) ELSE tasks[i]]
    /\ nextTask' = nextTask + Cardinality(Loadable)
    /\ ev' = [op |-> what, id |-> 0, k |-> 0]
    /\ UNCHANGED <<now, db, nextId, orig, sent, deleted, faults, call>>

\* a stop() that clears the map and cancels nothing
StoppedTasksNoCancel == tk

\* stop(), manager.py 147-153: the tasks and the rows after it
StoppedTasks ==
    [k \in Slots |-> IF \E i \in Ids : tasks[i] = k THEN cancel(k).t ELSE tk[k]]

StoppedRows ==
    [i \in Ids |-> IF tasks[i] # 0 THEN cancel(tasks[i]).row ELSE db[i]]

\* a remove that cancels every task of the map
RemovedTasksAll(id) == StoppedTasks

\* remove_notification(id), manager.py 98-107: the tasks and the rows after it
RemovedTasks(id) ==
    [k \in Slots |-> IF tasks[id] = k THEN cancel(k).t ELSE tk[k]]

RemovedRows(id) ==
    [i \in Ids |-> IF i = id /\ tasks[i] # 0 THEN cancel(tasks[i]).row ELSE db[i]]

\* ------------------------------------------------------------------------
\* Handlers of main.py and of the slash commands

\* on_ready, main.py 20-28
on_ready == load_existing_notifications("load")

\* on_resumed, main.py 137-151
on_resumed == load_existing_notifications("load")

\* on_disconnect, main.py 121-135
on_disconnect ==
    /\ tk' = StoppedTasks
    /\ db' = StoppedRows
    /\ tasks' = [i \in Ids |-> 0]
    /\ ev' = [op |-> "on_disconnect", id |-> 0, k |-> 0]
    /\ UNCHANGED <<now, nextId, nextTask, orig, sent, deleted, faults, call>>

\* add_notification(*row) with _start_task(row), manager.py 89-96 and
\* 123-145: the row has 11 fields, last_triggered is not one of them; the new
\* task is stored under the id whatever the map holds for it
start_task(id, row) ==
    IF config_raises(row)
    THEN /\ UNCHANGED <<tk, tasks, nextTask>>
         /\ ev' = [op |-> "add", id |-> id, k |-> 0]
    ELSE /\ nextTask <= MaxTasks
         /\ tk' = [tk EXCEPT ![nextTask] =
                      NewTask(id, NotificationConfig(row, None), "add")]
         /\ tasks' = [tasks EXCEPT ![id] = nextTask]
         /\ nextTask' = nextTask + 1
         /\ ev' = [op |-> "add", id |-> id, k |-> nextTask]

\* /noti add, add.py 69-142: the row is inserted under a fresh id
\* (AUTOINCREMENT, database.py 67) and handed to the scheduler
AddCommand(start, rep, iv, endT, maxOcc) ==
    LET row == [live |-> TRUE, start |-> start, rep |-> rep, iv |-> iv,
                endT |-> endT, maxOcc |-> maxOcc, lastTrig |-> None]
    IN  /\ nextId <= MaxRecs
        /\ rep \/ start > now + ADD_MARGIN
        /\ db' = [db EXCEPT ![nextId] = row]
        /\ orig' = [orig EXCEPT ![nextId] = row]
        /\ start_task(nextId, row)
        /\ nextId' = nextId + 1
        /\ UNCHANGED <<now, sent, deleted, faults>>

\* what the options of /noti add can describe, within the bounds: a one-off,
\* or a repetition with an interval >= 1 (add.py 82-86), an optional end
\* time and an optional max_occurrences >= 1 (min_value=1, add.py 57-59);
\* validate_interval puts no upper limit on the interval
Shape(start, rep, iv, endT, maxOcc) ==
    [start |-> start, rep |-> rep, iv |-> iv, endT |-> endT, maxOcc |-> maxOcc]

AllShapes ==
    {Shape(start, FALSE, None, None, None) : start \in 0..MaxStart}
    \cup {Shape(x[1], TRUE, x[2], x[3], x[4]) :
            x \in (0..MaxStart) \X (1..MaxInterval) \X ({None} \cup 1..MaxEnd)
                    \X ({None} \cup 1..MaxOcc)}
    \cup {Shape(0, TRUE, HugeInterval, None, None)}

\* a few of them, for the runs with several records
FewShapes ==
    {Shape(MaxStart, FALSE, None, None, None),
     Shape(0, TRUE, MaxInterval, None, None),
     Shape(0, TRUE, MaxInterval, None, 1)}

add_notification(shapes) ==
    /\ \E r \in shapes : AddCommand(r.start, r.rep, r.iv, r.endT, r.maxOcc)
    /\ UNCHANGED call

\* /noti del <id>, delete.py 101-131: the row was there when the command
\* looked it up (line 108); the user confirms later (line 125), when a task
\* may have deleted it
delete_notification(id) ==
    /\ orig[id].live
    /\ tk' = RemovedTasks(id)
    /\ tasks' = [tasks EXCEPT ![id] = 0]
    /\ db' = [RemovedRows(id) EXCEPT ![id] = BlankRow]
    /\ deleted' = deleted \cup {id}
    /\ ev' = [op |-> "delete", id |-> id, k |-> tasks[id]]
    /\ UNCHANGED <<now, nextId, nextTask, orig, sent, faults, call>>

\* /noti del all, delete.py 94-99
delete_all ==
    /\ db' = [i \in Ids |-> BlankRow]
    /\ tk' = StoppedTasks
    /\ tasks' = [i \in Ids |-> 0]
    /\ deleted' = deleted \cup LiveRows
    /\ ev' = [op |-> "delete_all", id |-> 0, k |-> 0]
    /\ UNCHANGED <<now, nextId, nextTask, orig, sent, faults, call>>

\* the clock.  loop.create_task schedules the first step of a task with
\* call_soon: it runs in the next iteration of the event loop, before a whole
\* unit of time has passed.  Sleeps and requests may end late.
Tick ==
    /\ now < MaxTime
    /\ \A k \in Slots : tk[k].pc # "created"
    /\ now' = now + 1
    /\ ev' = [op |-> "tick", id |-> 0, k |-> 0]
    /\ UNCHANGED <<db, tasks, tk, nextId, nextTask, orig, sent, deleted, faults, call>>

\* ------------------------------------------------------------------------
NoCall == [fn |-> "none", done |-> TRUE]

InitScheduler ==
    /\ now = 0
    /\ db = [i \in Ids |-> BlankRow]
    /\ tasks = [i \in Ids |-> 0]
    /\ tk = [k \in Slots |-> FreeTask]
    /\ nextId = 1
    /\ nextTask = 1
    /\ orig = [i \in Ids |-> BlankRow]
    /\ sent = [i \in Ids |-> <<>>]
    /\ deleted = {}
    /\ faults = 0
    /\ ev = [op |-> "init", id |-> 0, k |-> 0]

Init == InitScheduler /\ call = NoCall

TaskStep ==
    \E k \in Slots :
        \/ TaskStart(k)
        \/ CatchUpSent(k)
        \/ PrefetchWake(k)
        \/ PrefetchDone(k)
        \/ DispatchWake(k)
        \/ LiveSent(k)

\* Several records, the gateway events in any order
Next ==
    \/ on_ready
    \/ on_resumed
    \/ on_disconnect
    \/ add_notification(FewShapes)
    \/ \E id \in Ids : delete_notification(id)
    \/ delete_all
    \/ Tick
    \/ TaskStep

Spec == Init /\ [][Next]_vars

\* One record of any shape, and the gateway as it behaves: the records are
\* loaded at startup and after a disconnect (which emptied the task map)
MapEmpty == \A i \in Ids : tasks[i] = 0

NextOne ==
    \/ MapEmpty /\ on_ready
    \/ MapEmpty /\ on_resumed
    \/ on_disconnect
    \/ nextId = 1 /\ add_notification(AllShapes)
    \/ \E id \in Ids : delete_notification(id)
    \/ delete_all
    \/ Tick
    \/ TaskStep

SpecOne == Init /\ [][NextOne]_vars

\* The scheduler's own interface: add_notification(*row) may be handed the row
\* of any persisted record, one whose task is running included
add_again(id) ==
    /\ db[id].live
    /\ start_task(id, db[id])
    /\ UNCHANGED <<now, db, nextId, orig, sent, deleted, faults, call>>

NextApi ==
    \/ MapEmpty /\ on_ready
    \/ MapEmpty /\ on_resumed
    \/ on_disconnect
    \/ nextId = 1 /\ add_notification(FewShapes)
    \/ \E id \in Ids : add_again(id)
    \/ \E id \in Ids : delete_notification(id)
    \/ delete_all
    \/ Tick
    \/ TaskStep

SpecApi == Init /\ [][NextApi]_vars

\* The catch-up of one record, whatever fails: a record is added at any time
\* and its task runs up to its live loop, every dispatch of the catch-up
\* possibly failing
MaxCatchUpFaults == 3

NextCatchUp ==
    \/ nextId = 1 /\ add_notification(AllShapes)
    \/ Tick
    \/ \E k \in Slots : TaskStartIn(k, EnvsUpTo(MaxCatchUpFaults))
    \/ \E k \in Slots : CatchUpSentIn(k, EnvsUpTo(MaxCatchUpFaults))

SpecCatchUp == Init /\ [][NextCatchUp]_vars

\* One record and its task, the pre-fetch lookups of an occurrence succeeding
\* or failing
NextPrefetch ==
    \/ nextId = 1 /\ add_notification(AllShapes)
    \/ Tick
    \/ \E k \in Slots : TaskStart(k)
    \/ \E k \in Slots : CatchUpSent(k)
    \/ \E k \in Slots : PrefetchWake(k)
    \/ \E k \in Slots : PrefetchDoneIn(k, Envs)
    \/ \E k \in Slots : DispatchWake(k)
    \/ \E k \in Slots : LiveSent(k)

SpecPrefetch == Init /\ [][NextPrefetch]_vars

\* One record and its task when the event loop is fair and time goes on, no
\* task is cancelled and sqlite never fails: every request a task awaits
\* returns (a channel.send or a lookup may fail), every sleep ends
TaskStepDbOk(k) ==
    \/ TaskStartIn(k, EnvsDbOk)
    \/ CatchUpSentIn(k, EnvsDbOk)
    \/ PrefetchWake(k)
    \/ PrefetchDoneIn(k, EnvsDbOk)
    \/ DispatchWakeIn(k, EnvsDbOk)
    \/ LiveSentIn(k, EnvsDbOk)

NextFair ==
    \/ nextId = 1 /\ add_notification(AllShapes)
    \/ Tick
    \/ \E k \in Slots : TaskStepDbOk(k)

Fairness ==
    /\ WF_vars(Tick)
    /\ \A k \in Slots : WF_vars(TaskStepDbOk(k))

SpecFair == Init /\ [][NextFair]_vars /\ Fairness

\* ------------------------------------------------------------------------
\* The interval helpers: bot/utils.py, bot/commands/add.py 79-86,
\* bot/commands/list.py 37-78.  A text is a sequence of characters; a
\* datetime is a number of seconds; a timedelta is what datetime.timedelta
\* normalises its arguments to, days and seconds.
\* ------------------------------------------------------------------------
MaxText == 4
MaxValue == 1500

NoUnit == "none"
Units == {"s", "m", "h", "d", "w"}

DigitChars == <<"0", "1", "2", "3", "4", "5", "6", "7", "8", "9">>
UpperChars == <<"S", "M", "H", "D", "W">>
LowerChars == <<"s", "m", "h", "d", "w">>

IsDigit(c) == \E i \in 1..Len(DigitChars) : DigitChars[i] = c
DigitVal(c) == (CHOOSE i \in 1..Len(DigitChars) : DigitChars[i] = c) - 1

\* str.lower, and what re.IGNORECASE does to a letter
lower(c) ==
    IF \E i \in 1..Len(UpperChars) : UpperChars[i] = c
    THEN LowerChars[CHOOSE i \in 1..Len(UpperChars) : UpperChars[i] = c]
    ELSE c

\* int() of a text of digits
RECURSIVE int(_)
int(s) ==
    IF s = <<>> THEN 0
    ELSE 10 * int(SubSeq(s, 1, Len(s) - 1)) + DigitVal(s[Len(s)])

\* how many characters from position p on are of the class: what a greedy
\* \d+ or \s* takes, as the character after it can then not be one of them
Run(s, p, class) ==
    CHOOSE n \in 0..(Len(s) - p + 1) :
        /\ \A i \in p..(p + n - 1) : s[i] \in class
        /\ (p + n > Len(s) \/ s[p + n] \notin class)

Digits == {DigitChars[i] : i \in 1..Len(DigitChars)}
Spaces == {" "}

\* (?:ec(?:ond)?|in(?:ute)?|our|ay|(?:ee)?k)?s?$
Suffixes ==
    {<<"e", "c">>, <<"e", "c", "o", "n", "d">>, <<"i", "n">>,
     <<"i", "n", "u", "t", "e">>, <<"o", "u", "r">>, <<"a", "y">>,
     <<"k">>, <<"e", "e", "k">>}

Tails == {x \o y : x \in {<<>>} \cup Suffixes, y \in {<<>>, <<"s">>}}

\* utils.py 44-57: (value, unit), or (None, None) if the text does not match
parse_interval(interval_str) ==
    LET n == Run(interval_str, 1, Digits)
        u == n + Run(interval_str, n + 1, Spaces) + 1
        rest == [i \in 1..(Len(interval_str) - u) |-> lower(interval_str[u + i])]
    IN  IF /\ n >= 1
           /\ u <= Len(interval_str)
           /\ lower(interval_str[u]) \in Units
           /\ rest \in Tails
        THEN <<int(SubSeq(interval_str, 1, n)), lower(interval_str[u])>>
        ELSE <<None, NoUnit>>

\* utils.py 60-78: every unit has the minimum 1
validate_interval(value, unit) ==
    IF value <= 0 THEN FALSE
    ELSE value >= (IF unit \in Units THEN 1 ELSE 1)

\* the interval option without the checks of the parsed value (add.py 84)
interval_option_unchecked(interval) ==
    IF interval = <<>>
    THEN [ok |-> TRUE, rep |-> FALSE, val |-> None, unit |-> NoUnit]
    ELSE LET p == parse_interval(interval)
         IN  IF p[2] = NoUnit
             THEN [ok |-> FALSE, rep |-> FALSE, val |-> p[1], unit |-> p[2]]
             ELSE [ok |-> TRUE, rep |-> TRUE, val |-> p[1], unit |-> p[2]]

\* add.py 79-86: the interval option of /noti add.  ok is FALSE where the
\* handler answers "Invalid interval." and returns
interval_option(interval) ==
    IF interval = <<>>
    THEN [ok |-> TRUE, rep |-> FALSE, val |-> None, unit |-> NoUnit]
    ELSE LET p == parse_interval(interval)
         IN  IF \/ ~Truthy(p[1])
                \/ p[2] = NoUnit
                \/ ~validate_interval(p[1], p[2])
             THEN [ok |-> FALSE, rep |-> FALSE, val |-> p[1], unit |-> p[2]]
             ELSE [ok |-> TRUE, rep |-> TRUE, val |-> p[1], unit |-> p[2]]

\* the length of each unit in seconds
UnitSeconds(unit) ==
    CASE unit = "s" -> 1
      [] unit = "m" -> 60
      [] unit = "h" -> 3600
      [] unit = "d" -> 86400
      [] unit = "w" -> 604800

\* datetime.timedelta(days=, seconds=): normalised so that seconds is in
\* 0..86399; OverflowError beyond 999999999 days
NoDelta == [kind |-> "none", days |-> 0, seconds |-> 0]
Overflow == [kind |-> "OverflowError", days |-> 0, seconds |-> 0]

timedelta(days, seconds) ==
    LET d == days + seconds \div (24 * 3600)
    IN  IF d > 999999999 \/ d < 0 - 999999999 THEN Overflow
        ELSE [kind |-> "timedelta", days |-> d, seconds |-> seconds % (24 * 3600)]

total_seconds(td) == td.days * (24 * 3600) + td.seconds

\* the dictionary with a week of six days
delta_map_short_week(value) ==
    [unit \in Units |->
        IF 7 * value > 999999999 \/ 7 * value < 0 - 999999999 THEN Overflow
        ELSE CASE unit = "s" -> timedelta(0, value)
               [] unit = "m" -> timedelta(0, 60 * value)
               [] unit = "h" -> timedelta(0, 3600 * value)
               [] unit = "d" -> timedelta(value, 0)
               [] unit = "w" -> timedelta(6 * value, 0)]

\* the dictionary both helpers build, every entry of it: the entry for weeks
\* is the first to overflow, whatever the unit asked for
delta_map(value) ==
    [unit \in Units |->
        IF 7 * value > 999999999 \/ 7 * value < 0 - 999999999 THEN Overflow
        ELSE CASE unit = "s" -> timedelta(0, value)
               [] unit = "m" -> timedelta(0, 60 * value)
               [] unit = "h" -> timedelta(0, 3600 * value)
               [] unit = "d" -> timedelta(value, 0)
               [] unit = "w" -> timedelta(7 * value, 0)]

\* utils.py 184-209
interval_to_timedelta(value, unit) ==
    IF value = None \/ unit = NoUnit THEN NoDelta
    ELSE IF unit \in Units THEN delta_map(value)[unit]
    ELSE IF delta_map(value)["w"] = Overflow THEN Overflow
    ELSE NoDelta

\* list.py 37-46
interval_to_delta(val, unit) ==
    IF ~Truthy(val) \/ unit = NoUnit THEN NoDelta
    ELSE interval_to_timedelta(val, unit)

\* list.py 49-78.  A timedelta of zero is false; Raised is the OverflowError
\* of interval_to_delta, which compute_next_run lets through
Raised == 0 - 98

\* the jump forward without the "+ 1" of list.py 74
compute_next_run_floor(start_time, is_repeating, iv_val, iv_unit, end_time, last_triggered, nw) ==
    IF ~is_repeating
    THEN IF last_triggered # None THEN None
         ELSE IF start_time # None /\ start_time >= nw THEN start_time
         ELSE None
    ELSE LET delta == interval_to_delta(iv_val, iv_unit)
             base == IF last_triggered # None THEN last_triggered ELSE start_time
             elapsed == nw - base
             missed == elapsed \div total_seconds(delta)
             nxt == IF nw <= base THEN base
                    ELSE base + missed * total_seconds(delta)
         IN  IF delta = Overflow THEN Raised
             ELSE IF delta = NoDelta \/ total_seconds(delta) = 0 THEN None
             ELSE IF base = None THEN None
             ELSE IF end_time # None /\ nxt > end_time THEN None
             ELSE nxt

compute_next_run(start_time, is_repeating, iv_val, iv_unit, end_time, last_triggered, nw) ==
    IF ~is_repeating
    THEN IF last_triggered # None THEN None
         ELSE IF start_time # None /\ start_time >= nw THEN start_time
         ELSE None
    ELSE LET delta == interval_to_delta(iv_val, iv_unit)
             base == IF last_triggered # None THEN last_triggered ELSE start_time
             elapsed == nw - base
             missed == elapsed \div total_seconds(delta)
             nxt == IF nw <= base THEN base
                    ELSE base + (missed + 1) * total_seconds(delta)
         IN  IF delta = Overflow THEN Raised
             ELSE IF delta = NoDelta \/ total_seconds(delta) = 0 THEN None
             ELSE IF base = None THEN None
             ELSE IF end_time # None /\ nxt > end_time THEN None
             ELSE nxt

\* the characters of the texts tried, and the texts
Chars == {"0", "1", "5", "-", " ", "s", "m", "M", "i", "n", "x"}
Texts == UNION {[1..n -> Chars] : n \in 0..MaxText}

HalfHour == 30 * 60
Datetimes == {HalfHour * i : i \in 0..MaxTime}

\* the calls tried
ParseCalls == {[fn |-> "interval_option", in |-> t, done |-> FALSE] : t \in Texts}

AddCalls ==
    {[fn |-> "add", in |-> [text |-> x[1], start |-> x[2], confirmed |-> x[3]],
      done |-> FALSE] : x \in Texts \X {0, MaxStart} \X BOOLEAN}

DeltaCalls ==
    {[fn |-> "interval_to_timedelta", in |-> [value |-> x[1], unit |-> x[2]],
      done |-> FALSE] :
        x \in ((({None} \cup 0..MaxValue) \X (Units \cup {NoUnit, "x"}))
               \cup ({24 * 3600 - 1, 24 * 3600, 24 * 3600 + 1} \X {"s"}))}

NextRunCalls ==
    {[fn |-> "compute_next_run",
      in |-> [start |-> x[1], rep |-> x[2], val |-> x[3], unit |-> x[4],
              endT |-> x[5], lt |-> x[6], nw |-> x[7]],
      done |-> FALSE] :
        x \in {HalfHour * i : i \in 0..MaxStart} \X BOOLEAN
              \X (0..MaxInterval) \X {"m", "h", NoUnit}
              \X ({None} \cup {HalfHour * i : i \in 1..MaxEnd})
              \X {None, HalfHour} \X Datetimes}

Finished(out) == [fn |-> call.fn, in |-> call.in, done |-> TRUE, out |-> out]

\* one evaluation of add.py 79-86
ApplyIntervalOption ==
    /\ call.fn = "interval_option" /\ ~call.done
    /\ call' = Finished(interval_option(call.in))
    /\ UNCHANGED <<now, db, tasks, tk, nextId, nextTask, orig, sent, deleted,
                   faults, ev>>

\* /noti add with its interval option, add.py 79-142: the unbounded
\* repetition is asked to be confirmed (lines 98-104); the row holds the
\* interval as the duration NotificationConfig makes of (value, unit)
\* (scheduler/config.py 78-81), in units of 5 s
ApplyAdd ==
    /\ call.fn = "add" /\ ~call.done
    /\ LET o == interval_option(call.in.text)
           secs == total_seconds(interval_to_timedelta(o.val, o.unit))
       IN  /\ call' = Finished(o)
           /\ IF ~o.ok \/ (o.rep /\ ~call.in.confirmed)
              THEN UNCHANGED <<now, db, tasks, tk, nextId, nextTask, orig,
                               sent, deleted, faults, ev>>
              ELSE IF o.rep
              THEN /\ secs % 5 = 0
                   /\ AddCommand(call.in.start, TRUE, secs \div 5, None, None)
              ELSE AddCommand(call.in.start, FALSE, None, None, None)

\* one evaluation of utils.py 184-209, for the value and for twice the value
ApplyIntervalToTimedelta ==
    /\ call.fn = "interval_to_timedelta" /\ ~call.done
    /\ call' = Finished(
          [td |-> interval_to_timedelta(call.in.value, call.in.unit),
           twice |-> interval_to_timedelta(
                        IF call.in.value = None THEN None ELSE 2 * call.in.value,
                        call.in.unit)])
    /\ UNCHANGED <<now, db, tasks, tk, nextId, nextTask, orig, sent, deleted,
                   faults, ev>>

\* one evaluation of list.py 49-78
ApplyComputeNextRun ==
    /\ call.fn = "compute_next_run" /\ ~call.done
    /\ call' = Finished(
          compute_next_run(call.in.start, call.in.rep, call.in.val,
                           call.in.unit, call.in.endT, call.in.lt, call.in.nw))
    /\ UNCHANGED <<now, db, tasks, tk, nextId, nextTask, orig, sent, deleted,
                   faults, ev>>

InitFn ==
    /\ InitScheduler
    /\ \/ call \in ParseCalls
       \/ call \in AddCalls
       \/ call \in DeltaCalls
       \/ call \in NextRunCalls

NextFn ==
    \/ ApplyIntervalOption
    \/ ApplyAdd
    \/ ApplyIntervalToTimedelta
    \/ ApplyComputeNextRun

SpecFn == InitFn /\ [][NextFn]_vars

\* ------------------------------------------------------------------------
\* Properties

IsIncreasing(s) == \A i \in 1..(Len(s) - 1) : s[i] < s[i + 1]

Deliveries(id) == DOMAIN sent[id]

\* C1: at most one running dispatch task exists for any record id, whatever
\* the sequence of loads, adds, removes, stops and task completions.
C1_OneTaskPerRecord == \A id \in Ids : Cardinality(RunningFor(id)) <= 1

\* C2: a task rebuilt by loadAll from a persisted repeating record that had
\* resolved occurrences never delivers an occurrence time that was delivered
\* before (by the cancelled task or by itself); stated for the runs in which
\* no send, channel lookup or sqlite statement fails.
C2_NoRedeliveryAfterRestart ==
    \A id \in Ids : \A i, j \in Deliveries(id) :
        LET k == sent[id][j].k
        IN  (i < j /\ faults = 0 /\ tk[k].origin = "load" /\ tk[k].cfg.rep
                   /\ tk[k].cfg.lastTrig # None)
                => sent[id][i].t # sent[id][j].t

\* C3: within one task run, dispatch is invoked on strictly increasing
\* occurrence times, the catch-up ones before the live-loop ones; stated for
\* the runs in which nothing fails.
C3_DispatchInOrder == \A k \in Slots : faults = 0 => IsIncreasing(tk[k].disp)

\* C4: the persisted lastTriggered of a record, once set, never decreases.
C4_LastTriggeredMonotone ==
    [][\A id \in Ids :
          (db[id].live /\ db'[id].live /\ db[id].lastTrig # None)
              => (db'[id].lastTrig # None /\ db'[id].lastTrig >= db[id].lastTrig)]_vars

\* C5: for a record with endTime set, no occurrence strictly after endTime
\* is ever delivered.
C5_NoDeliveryAfterEnd ==
    \A id \in Ids : \A i \in Deliveries(id) :
        orig[id].endT # None => sent[id][i].t <= orig[id].endT

\* C6: for a repeating record created with maxOccurrences = N, the total
\* number of deliveries, over catch-up, live loop and restarts, is at most N.
C6_AtMostMaxDeliveries ==
    \A id \in Ids :
        (orig[id].rep /\ orig[id].maxOcc # None) => Len(sent[id]) <= orig[id].maxOcc

\* C7: after an external delete of a record id, no task for that id is
\* running (so nothing is delivered or written for it any more).
C7_NoTaskAfterDelete == \A id \in deleted : RunningFor(id) = {}

\* C8: cancelling a task at a suspension point (or before its first step)
\* ends it without touching the record: a cancellation by stop() leaves the
\* row as it was, lastTriggered included, so an occurrence cancelled in the
\* middle of its delivery is not marked resolved; the only cancel steps after
\* which the row is gone are the delete commands, which delete it themselves.
\* The cancelled task delivers nothing in that step.
C8_CancelKeepsRecord ==
    [][\A k \in Slots :
          (Running(k) /\ tk'[k].pc = "cancelled") =>
              /\ sent'[tk[k].nid] = sent[tk[k].nid]
              /\ ev'.op = "on_disconnect" => db'[tk[k].nid] = db[tk[k].nid]
              /\ ev'.op # "on_disconnect" =>
                    (ev'.op \in {"delete", "delete_all"} /\ ~db'[tk[k].nid].live)
      ]_vars

C8_Witness ==
    /\ ev.op = "on_disconnect"
    /\ \E k \in Slots :
          /\ tk[k].pc = "cancelled"
          /\ db[tk[k].nid].live
          /\ db[tk[k].nid].lastTrig # None

\* C9: stop() leaves the task map empty and none of the tasks it held
\* running; on_disconnect, which is stop() and the closing of the
\* connection, changes no row and delivers nothing; a cancelled task never
\* changes again, and every later delivery or write is the step of a task
\* that was running before that step.
C9_StopAll ==
    [][/\ ev'.op \in {"on_disconnect", "delete_all"} =>
            /\ \A i \in Ids : tasks'[i] = 0
            /\ \A i \in Ids : tasks[i] # 0 => tk'[tasks[i]].pc \notin Live
       /\ ev'.op = "on_disconnect" => (db' = db /\ sent' = sent)
       /\ \A k \in Slots : tk[k].pc = "cancelled" => tk'[k] = tk[k]
       /\ (db' # db \/ sent' # sent) =>
            \/ ev'.op \in {"add", "delete", "delete_all"}
            \/ Running(ev'.k)
      ]_vars

C9_Witness ==
    /\ ev.op = "on_disconnect"
    /\ Cardinality({k \in Slots : tk[k].pc = "cancelled"}) = 2
    /\ \E i \in Ids : db[i].live

\* C10: after add there is exactly one running task for the record's id,
\* also when a task for that id was running before.
C10_AddStartsOne == ev.op = "add" => Cardinality(RunningFor(ev.id)) = 1

\* C11: when a task has completed naturally (run() reached its cleanup and
\* returned), the record is deleted and the scheduler's task map no longer
\* has an entry for the task's id.
C11_CompletedTaskLeavesMap ==
    \A k \in Slots :
        tk[k].pc = "done" => (~db[tk[k].nid].live /\ tasks[tk[k].nid] # k)

\* C12: a step in which a task ends on an unexpected error (an sqlite error
\* in the live loop, caught at task.py 150) changes nothing but that task:
\* no row is deleted or written, the task map is as it was, every other task
\* is as it was, and no delivery is recorded for another record.
C12_ErrorEndsOnlyThatTask ==
    [][\A k \in Slots :
          (tk[k].pc # "failed" /\ tk'[k].pc = "failed") =>
              /\ db' = db
              /\ tasks' = tasks
              /\ \A j \in Slots \ {k} : tk'[j] = tk[j]
              /\ \A i \in Ids \ {tk[k].nid} : sent'[i] = sent[i]
      ]_vars

C12_Witness ==
    \E k, j \in Slots :
        /\ tk[k].pc = "failed"
        /\ db[tk[k].nid].live
        /\ tasks[tk[k].nid] = k
        /\ tk[j].nid # tk[k].nid
        /\ Running(j)

C14_OneOffSingleAttempt ==
    /\ \A k \in Slots :
          (tk[k].pc \notin {"free", "cancelled"} /\ ~tk[k].cfg.rep) =>
              /\ Len(tk[k].disp) <= 1
              /\ \A i \in DOMAIN tk[k].disp : tk[k].disp[i] = tk[k].cfg.start
              /\ tk[k].pc # "cu_sending"
              /\ tk[k].pc = "sending" => tk[k].disp = <<tk[k].cfg.start>>
              /\ tk[k].pc = "done" =>
                    (tk[k].disp = <<tk[k].cfg.start>> /\ ~db[tk[k].nid].live)
              /\ (Len(tk[k].disp) = 1 /\ tk[k].pc # "sending") =>
                    tk[k].pc \in {"done", "failed"}

C14_Witness ==
    \E k \in Slots :
        /\ tk[k].pc = "done"
        /\ ~tk[k].cfg.rep
        /\ ev = [op |-> "live_sent", id |-> tk[k].nid, k |-> k]
        /\ Len(sent[tk[k].nid]) = 1
        /\ ~db[tk[k].nid].live

\* C15: when a task of a repeating record holding max_occurrences = 1
\* skips an occurrence that is past its deadline (the only thing that lowers
\* the task's max_occurrences), the record is gone at the end of that step.
C15_SkipAtMaxOneDeletes ==
    [][\A k \in Slots :
          (/\ Running(k)
           /\ tk[k].cfg.rep
           /\ tk[k].cfg.maxOcc = 1
           /\ tk'[k].nid = tk[k].nid
           /\ tk'[k].pc # "cancelled"
           /\ tk'[k].cfg.maxOcc # 1) =>
              (tk'[k].cfg.maxOcc <= 0 /\ ~db'[tk[k].nid].live)
      ]_vars

C15_Witness ==
    \E k \in Slots :
        /\ tk[k].cfg.rep
        /\ orig[tk[k].nid].maxOcc = 1
        /\ tk[k].cfg.maxOcc = 0
        /\ tk[k].disp = <<tk[k].cfg.start>>
        /\ ev.k = k
        /\ sent[tk[k].nid] = <<>>
        /\ faults = 0
        /\ ~db[tk[k].nid].live

\* C16: after load_existing_notifications has run on an empty task map, the
\* ids that have a running task are exactly the ids of the persisted
\* records, and the task stored for each record carries the record's
\* persisted last_triggered.
C16_LoadRebuildsAll ==
    [][(MapEmpty /\ ev'.op = "load") =>
          /\ {tk'[k].nid : k \in {j \in Slots : tk'[j].pc \in Live}} = LiveRows
          /\ \A i \in LiveRows :
                /\ tasks'[i] # 0
                /\ tk'[tasks'[i]].cfg.lastTrig = db[i].lastTrig
      ]_vars

\* C17: remove_notification(id), as /noti del <id> calls it: with no entry
\* for the id it changes nothing in the scheduler; after it the id has no
\* entry, so a second remove is the first case; it changes no task but the
\* one stored for the id, no entry of another id, and no row at all (the
\* row of the id is deleted by the command, after the remove).
C17_RemoveIdempotent ==
    [][ev'.op = "delete" =>
          /\ tasks[ev'.id] = 0 => (tk' = tk /\ tasks' = tasks)
          /\ tasks'[ev'.id] = 0
          /\ \A k \in Slots \ {tasks[ev'.id]} : tk'[k] = tk[k]
          /\ \A i \in Ids \ {ev'.id} : tasks'[i] = tasks[i] /\ db'[i] = db[i]
          /\ RemovedRows(ev'.id) = db
      ]_vars

C17_Witness ==
    /\ ev.op = "delete"
    /\ ev.k = 0
    /\ \E k \in Slots : tk[k].nid = ev.id /\ tk[k].pc = "cancelled"
    /\ \E j \in Slots : tk[j].nid # ev.id /\ Running(j) /\ tasks[tk[j].nid] = j

\* C18: every repeating record /noti add persists and schedules has an
\* interval with value >= 1 and a strictly positive duration; an interval
\* text whose value is zero, that is negative, or that cannot be parsed
\* (no leading number, no unit after the number, a character that belongs
\* to no unit) is rejected, and a rejected /noti add has inserted no record
\* and started no task.
C18_ZeroValue(t) ==
    /\ Run(t, 1, Digits) >= 1
    /\ \A i \in 1..Run(t, 1, Digits) : t[i] = "0"

C18_Unparsable(t) ==
    \/ ~IsDigit(t[1])
    \/ \A i \in 1..Len(t) : IsDigit(t[i])
    \/ \E i \in 1..Len(t) : t[i] \in {"-", "x"}

C18_IntervalPositive ==
    /\ (call.fn \in {"interval_option", "add"} /\ call.done) =>
          LET t == IF call.fn = "add" THEN call.in.text ELSE call.in
              td == interval_to_timedelta(call.out.val, call.out.unit)
          IN  /\ (call.out.ok /\ call.out.rep) =>
                    /\ call.out.val >= 1
                    /\ td.kind = "timedelta"
                    /\ total_seconds(td) > 0
              /\ (t # <<>> /\ (C18_ZeroValue(t) \/ t[1] = "-" \/ C18_Unparsable(t)))
                    => ~call.out.ok
              /\ (call.fn = "add" /\ ~call.out.ok) =>
                    /\ nextId = 1
                    /\ LiveRows = {}
                    /\ \A i \in Ids : tasks[i] = 0
                    /\ \A k \in Slots : tk[k] = FreeTask
    /\ \A i \in LiveRows : db[i].rep =>
          /\ db[i].iv >= 1
          /\ call.fn = "add" /\ call.done /\ call.out.ok /\ call.out.rep
          /\ 5 * db[i].iv =
               total_seconds(interval_to_timedelta(call.out.val, call.out.unit))

C18_Witness ==
    /\ call.fn = "add" /\ call.done /\ call.out.ok /\ call.out.rep
    /\ Len(call.in.text) = MaxText
    /\ db[1].live /\ db[1].rep /\ db[1].iv >= 1
    /\ tasks[1] # 0 /\ tk[tasks[1]].pc = "created"

\* C19: for a repeating record with an interval, compute_next_run returns
\* base = (last_triggered or start_time) when now <= base, otherwise
\* base + (floor((now - base) / interval) + 1) * interval, which is the
\* smallest base + k * interval with k >= 1 that is strictly after now; it
\* returns none when that value is after end_time.  With start_time = T0,
\* interval 1h and now = T0 + 90 min the result is T0 + 2h.
C19_Interval == call.in.val * UnitSeconds(call.in.unit)

C19_Base == IF call.in.lt # None THEN call.in.lt ELSE call.in.start

C19_Next ==
    IF call.in.nw <= C19_Base THEN C19_Base
    ELSE C19_Base + ((call.in.nw - C19_Base) \div C19_Interval + 1) * C19_Interval

C19_Smallest ==
    LET k == CHOOSE j \in 1..(call.in.nw + 1) :
                /\ C19_Base + j * C19_Interval > call.in.nw
                /\ \A i \in 1..(j - 1) : C19_Base + i * C19_Interval <= call.in.nw
    IN  C19_Base + k * C19_Interval

C19_NextOccurrence ==
    (/\ call.fn = "compute_next_run" /\ call.done
     /\ call.in.rep /\ call.in.val >= 1 /\ call.in.unit \in Units) =>
        /\ call.out = IF call.in.endT # None /\ C19_Next > call.in.endT
                      THEN None ELSE C19_Next
        /\ call.in.nw > C19_Base => C19_Next = C19_Smallest
        /\ (/\ call.in.start = 0 /\ call.in.lt = None /\ call.in.endT = None
            /\ call.in.val = 1 /\ call.in.unit = "h"
            /\ call.in.nw = 90 * 60) => call.out = 2 * 3600

C19_Witness ==
    /\ call.fn = "compute_next_run" /\ call.done /\ call.in.rep
    /\ call.in.start = 0 /\ call.in.lt = None /\ call.in.endT = None
    /\ call.in.val = 1 /\ call.in.unit = "h" /\ call.in.nw = 90 * 60
    /\ call.out = 2 * 3600

\* C20: for every unit of s, m, h, d, w and every positive value v of the
\* range tried, interval_to_timedelta(v, unit) lasts v times the length of
\* the unit in seconds (1, 60, 3600, 86400, 604800), and
\* interval_to_timedelta(2v, unit) lasts twice as long.
C20_Proportional ==
    (/\ call.fn = "interval_to_timedelta" /\ call.done
     /\ call.in.value # None /\ call.in.value >= 1
     /\ call.in.unit \in Units) =>
        /\ call.out.td.kind = "timedelta"
        /\ call.out.twice.kind = "timedelta"
        /\ call.out.td.seconds \in 0..(24 * 3600 - 1)
        /\ total_seconds(call.out.td) = call.in.value * UnitSeconds(call.in.unit)
        /\ total_seconds(call.out.twice) = 2 * total_seconds(call.out.td)

C20_Witness ==
    /\ call.fn = "interval_to_timedelta" /\ call.done
    /\ call.in.unit = "w" /\ call.in.value = MaxValue
    /\ call.out.td.kind = "timedelta"
    /\ call.out.td.days = 7 * MaxValue
    /\ call.out.twice.days = 14 * MaxValue

\* C21: once the max_occurrences of a repeating record has been reached, in
\* particular once a late skip has driven it to 0 and the record has been
\* deleted, its task stops: it hands no further occurrence to _dispatch and
\* makes no further delivery.
C21_StopsAtMax ==
    [][\A k \in Slots :
          (/\ tk[k].cfg.rep
           /\ tk[k].cfg.maxOcc # None /\ tk[k].cfg.maxOcc <= 0
           /\ tk'[k].nid = tk[k].nid /\ tk'[k].pc # "cancelled")
          => /\ tk'[k].disp = tk[k].disp
             /\ sent'[tk[k].nid] = sent[tk[k].nid]]_vars

\* C22: when _dispatch of an occurrence t is evaluated with
\* now >= t + DELIVER_LATE (and the channel and the store are there), nothing
\* is delivered for t, the persisted last_triggered becomes t, and a
\* max_occurrences that is set goes down by exactly 1 for each such
\* occurrence, in the task's config and in the store alike, the record being
\* deleted when the new value is <= 0.
C22_Late(k) ==
    {i \in (Len(tk[k].disp) + 1)..Len(tk'[k].disp) :
        now >= tk'[k].disp[i] + DELIVER_LATE}

C23_FirstTargetIsRestore ==
    [][\A k \in Slots :
          (/\ tk[k].pc \in {"created", "cu_sending"}
           /\ tk'[k].pc \in {"prefetch_wait", "prefetching"}
           /\ tk[k].cfg.rep)
          => tk'[k].sched =
                next_sched(tk[k].cfg,
                           IF tk[k].pc = "created" THEN now ELSE tk[k].now0)]_vars

\* C24: before its live loop, a task hands to _dispatch, in ascending order,
\* exactly the occurrence times t = base + k * interval (k >= 1,
\* base = last_triggered or start_time) with t <= now and
\* now - t <= DELIVER_LATE, where now is the time run() was entered; so also
\* when earlier occurrences are older than the late-delivery window.
C24_Due(c, n0) ==
    LET base == IF c.lastTrig # None THEN c.lastTrig ELSE c.start
    IN  {t \in {base + j * c.iv : j \in 1..n0} :
            t <= n0 /\ n0 - t <= DELIVER_LATE}

C24_CatchUpAllDue ==
    [][\A k \in Slots :
          (/\ tk[k].pc \in {"created", "cu_sending"}
           /\ tk'[k].pc \in {"prefetch_wait", "prefetching"}
           /\ Repeating(tk[k].cfg))
          => LET d == tk'[k].disp
             IN  /\ {d[i] : i \in 1..Len(d)} =
                       C24_Due(tk[k].cfg,
                               IF tk[k].pc = "created" THEN now ELSE tk[k].now0)
                 /\ \A i, j \in 1..Len(d) : i < j => d[i] < d[j]]_vars

\* C25 (as stated): with base T0 = 0, an interval of 1, now = 3 and
\* DELIVER_LATE = 2, the catch-up hands exactly <<1, 2>> to _dispatch: the
\* occurrence that is exactly DELIVER_LATE old is included and the
\* occurrence due at now is left out.
C25_EntryTime(k) == IF tk[k].pc = "created" THEN now ELSE tk[k].now0

C25_Example(k) ==
    /\ tk[k].pc \in {"created", "cu_sending"}
    /\ tk'[k].pc \in {"prefetch_wait", "prefetching"}
    /\ Repeating(tk[k].cfg) /\ tk[k].cfg.iv = 1
    /\ tk[k].cfg.start = 0 /\ tk[k].cfg.lastTrig = None
    /\ C25_EntryTime(k) = 3 /\ DELIVER_LATE = 2

C25_CatchUpExcludesNow ==
    [][\A k \in Slots : C25_Example(k) => tk'[k].disp = <<1, 2>>]_vars

\* C25 (amended): on the same input the catch-up hands exactly <<1, 2, 3>>
\* to _dispatch: the occurrence that is exactly DELIVER_LATE old is included,
\* and so is the occurrence due at now.
C25_CatchUpIncludesNow ==
    [][\A k \in Slots : C25_Example(k) => tk'[k].disp = <<1, 2, 3>>]_vars

C25_Witness ==
    \E k \in Slots :
        /\ tk[k].pc \in {"prefetch_wait", "prefetching"}
        /\ ev.k = k /\ ev.op \in {"run", "catchup_sent"}
        /\ Repeating(tk[k].cfg) /\ tk[k].cfg.iv = 1
        /\ tk[k].cfg.start = 0 /\ tk[k].cfg.lastTrig = None
        /\ tk[k].disp = <<1, 2, 3>>
        /\ tk[k].occ = 0
        /\ now >= 3

\* C26: the catch-up always ends.  Every step of a task that is in its
\* catch-up either enters the live loop or moves next_time strictly forward
\* while it stays at or before the fixed `now` of the catch-up, and never
\* more than DELIVER_LATE / interval + 1 occurrences are dispatched: so after
\* finitely many dispatches the task is in its live loop, also when every
\* dispatch of the catch-up fails.
C26_CatchUpTerminates ==
    [][\A k \in Slots :
          (tk[k].pc \in {"created", "cu_sending"} /\ tk'[k] # tk[k])
          => \/ tk'[k].pc = "cancelled"
             \/ /\ tk'[k].pc \in {"prefetch_wait", "prefetching"}
                /\ Repeating(tk[k].cfg) =>
                      Len(tk'[k].disp) <= DELIVER_LATE \div tk[k].cfg.iv + 1
                /\ ~Repeating(tk[k].cfg) => tk'[k].disp = <<>>
             \/ /\ tk'[k].pc = "cu_sending"
                /\ Repeating(tk[k].cfg)
                /\ tk'[k].now0 = (IF tk[k].pc = "created" THEN now ELSE tk[k].now0)
                /\ tk'[k].nt <= tk'[k].now0
                /\ tk[k].pc = "cu_sending" => tk'[k].nt > tk[k].nt
                /\ Len(tk'[k].disp) <= DELIVER_LATE \div tk[k].cfg.iv + 1]_vars

C26_Witness ==
    \E k \in Slots :
        /\ tk[k].pc \in {"prefetch_wait", "prefetching"}
        /\ ev.k = k /\ ev.op = "catchup_sent"
        /\ Len(tk[k].disp) = DELIVER_LATE + 1
        /\ tk[k].rc = 0
        /\ faults >= Len(tk[k].disp)
        /\ sent[tk[k].nid] = <<>>

\* C27: a failure raised by the dispatch of one catch-up occurrence (a
\* delivery or a persistence error) ends neither the catch-up nor the task:
\* the task stays in its catch-up or enters its live loop, and when it enters
\* the live loop it has handed to _dispatch, in ascending order, every
\* occurrence the catch-up loop reaches from base + interval on, whatever
\* failed.
C27_Reached(c, n0) ==
    LET base == IF c.lastTrig # None THEN c.lastTrig ELSE c.start
    IN  {base + j * c.iv : j \in
            {j \in 1..(n0 + 1) :
                \A i \in 1..j : /\ base + i * c.iv <= n0
                                /\ n0 - (base + i * c.iv) <= DELIVER_LATE}}

C27_CatchUpSurvivesFailure ==
    [][\A k \in Slots :
          (/\ tk[k].pc \in {"created", "cu_sending"}
           /\ ev'.k = k /\ tk'[k].pc # "cancelled")
          => /\ tk'[k].pc \in {"cu_sending", "prefetch_wait", "prefetching"}
             /\ (tk'[k].pc # "cu_sending" /\ Repeating(tk[k].cfg)) =>
                   LET d == tk'[k].disp
                   IN  /\ {d[i] : i \in 1..Len(d)} =
                             C27_Reached(tk[k].cfg,
                                 IF tk[k].pc = "created" THEN now ELSE tk[k].now0)
                       /\ \A i, j \in 1..Len(d) : i < j => d[i] < d[j]]_vars

C27_Witness ==
    \E k \in Slots :
        /\ tk[k].pc \in {"prefetch_wait", "prefetching"}
        /\ ev.k = k /\ ev.op = "catchup_sent"
        /\ Len(tk[k].disp) = 2
        /\ tk[k].rc = 1
        /\ faults = 1
        /\ db[tk[k].nid].lastTrig = tk[k].disp[2]
        /\ \E i \in 1..Len(sent[tk[k].nid]) : sent[tk[k].nid][i].t = tk[k].disp[2]

\* C28: when _dispatch of an occurrence t was evaluated before its deadline
\* and channel.send fails, that one attempt is all that is made for t (no
\* retry), the persisted last_triggered is set to t all the same,
\* max_occurrences is not changed, and the task goes on: in the live loop to
\* its loop control (the occurrence is counted), in the catch-up to the next
\* occurrence.
C28_SendFailed(k) ==
    /\ tk[k].pc \in {"sending", "cu_sending"}
    /\ ev'.k = k /\ ev'.op \in {"live_sent", "catchup_sent"}
    /\ sent'[tk[k].nid] = sent[tk[k].nid]
    /\ faults' = faults + 1

C29_LastTriggeredAfterEveryOutcome ==
    [][\A k \in Slots :
          (/\ Running(k) /\ ev'.k = k /\ tk'[k].pc # "cancelled"
           /\ tk'[k].occ = tk[k].occ + 1
           /\ db'[tk[k].nid].live)
          => db'[tk[k].nid].lastTrig = tk[k].sched]_vars

\* C30: in the live loop of a repeating record the scheduled_time after n
\* occurrences is the first scheduled_time plus n * interval exactly,
\* whatever the times at which the earlier waits ended and the earlier
\* dispatches completed; and what _dispatch is handed is that time.
C30_First(c) ==
    IF c.lastTrig # None /\ Repeating(c) THEN c.lastTrig + c.iv ELSE c.start

C30_NoDrift ==
    \A k \in Slots :
        (/\ tk[k].pc \in {"prefetch_wait", "prefetching", "dispatch_wait", "sending"}
         /\ Repeating(tk[k].cfg))
        => /\ tk[k].sched = C30_First(tk[k].cfg) + tk[k].occ * tk[k].cfg.iv
           /\ tk[k].pc = "sending" => tk[k].disp[Len(tk[k].disp)] = tk[k].sched

C30_Witness ==
    \E k \in Slots :
        /\ tk[k].pc = "sending"
        /\ Repeating(tk[k].cfg) /\ tk[k].cfg.iv = 2
        /\ tk[k].cfg.lastTrig = None /\ tk[k].cfg.start = 0
        /\ tk[k].occ = 2 /\ tk[k].sched = 4
        /\ tk[k].at = 5
        /\ Len(sent[tk[k].nid]) >= 1

\* C31: a dispatch evaluated before its deadline, its delivery succeeding or
\* failing, leaves max_occurrences as it was, in the task's config and in the
\* store; only the too-late skip path changes it: a step changes the config's
\* max_occurrences, or the max_occurrences of a row that stays, only when it
\* is a step of a task of that record in which an occurrence was handed to
\* _dispatch at or after its deadline.
C31_LateIn(k) ==
    \E i \in (Len(tk[k].disp) + 1)..Len(tk'[k].disp) :
        now >= tk'[k].disp[i] + DELIVER_LATE

C31_MaxOnlyByLateSkip ==
    [][/\ \A k \in Slots :
             (/\ Running(k) /\ tk'[k].nid = tk[k].nid /\ tk'[k].pc # "cancelled"
              /\ tk'[k].cfg.maxOcc # tk[k].cfg.maxOcc)
             => ev'.k = k /\ C31_LateIn(k)
       /\ \A id \in Ids :
             (db[id].live /\ db'[id].live /\ db'[id].maxOcc # db[id].maxOcc)
             => /\ ev'.id = id /\ ev'.k \in Slots
                /\ tk[ev'.k].nid = id /\ C31_LateIn(ev'.k)
       /\ \A k \in Slots :
             (/\ tk[k].pc \in {"sending", "cu_sending"} /\ ev'.k = k
              /\ ev'.op \in {"live_sent", "catchup_sent"}
              /\ ~C31_LateIn(k))
             => /\ tk'[k].cfg.maxOcc = tk[k].cfg.maxOcc
                /\ db'[tk[k].nid].live =>
                      db'[tk[k].nid].maxOcc = db[tk[k].nid].maxOcc]_vars

C31_Witness ==
    \E k \in Slots :
        /\ ev.k = k /\ ev.op = "live_sent"
        /\ faults = 0
        /\ tk[k].pc \in {"prefetch_wait", "prefetching"}
        /\ tk[k].occ = 1
        /\ Len(sent[tk[k].nid]) = 1 /\ sent[tk[k].nid][1].k = k
        /\ orig[tk[k].nid].maxOcc = 2
        /\ tk[k].cfg.maxOcc = 2
        /\ db[tk[k].nid].live /\ db[tk[k].nid].maxOcc = 2
        /\ db[tk[k].nid].lastTrig = sent[tk[k].nid][1].t

\* C32: every write and every delete that a task of record id makes changes
\* only the row of that id: in every step of a task, whatever the other tasks
\* have done before it, the row of every other record is after the step what
\* it was before.
C32_TaskOps ==
    {"run", "catchup_sent", "prefetch_wake", "prefetch_done", "dispatch_wake",
     "live_sent"}

C32_OnlyOwnRow ==
    [][ev'.op \in C32_TaskOps
          => /\ ev'.k \in Slots /\ ev'.id = tk[ev'.k].nid
             /\ \A j \in Ids : j # ev'.id => db'[j] = db[j]]_vars

C32_Witness ==
    /\ ev.op = "live_sent"
    /\ tk[ev.k].pc = "done"
    /\ orig[ev.id].live /\ ~db[ev.id].live
    /\ sent[ev.id] # <<>>
    /\ \E j \in Ids :
          /\ j # ev.id
          /\ db[j].live /\ db[j].lastTrig # None
          /\ RunningFor(j) # {}

\* C33: a failure of the pre-fetch lookups of an occurrence (fetch_user or
\* channel.webhooks raising) does not end the task and does not keep the
\* occurrence from its wait and its dispatch: after the step in which the
\* lookup failed the task either waits for the scheduled time of that
\* occurrence, or, that time having come, has handed the occurrence to
\* _dispatch, which, when nothing else fails in the step (faults grows by
\* the one lookup failure) and the deadline has not passed, starts the
\* delivery.
C33_PrefetchFailureNotFatal ==
    [][\A k \in Slots :
          (ev'.op = "prefetch_failed" /\ ev'.k = k)
          => /\ tk[k].pc = "prefetching"
             /\ faults' = faults + 1 => tk'[k].pc # "failed"
             /\ IF now < tk[k].sched
                THEN /\ tk'[k].pc = "dispatch_wait"
                     /\ tk'[k].sched = tk[k].sched
                     /\ tk'[k].disp = tk[k].disp
                ELSE /\ tk'[k].disp = Append(tk[k].disp, tk[k].sched)
                     /\ (now < tk[k].sched + DELIVER_LATE /\ faults' = faults + 1) =>
                           /\ tk'[k].pc = "sending"
                           /\ tk'[k].sched = tk[k].sched
                           /\ tk'[k].at = now]_vars

C33_Witness ==
    \E k \in Slots :
        /\ ev.op = "prefetch_failed" /\ ev.k = k
        /\ faults = 1
        /\ tk[k].pc = "sending"
        /\ tk[k].at = now
        /\ tk[k].disp = <<tk[k].sched>>
        /\ db[tk[k].nid].live

C35_CatchUpNeverSkips ==
    [][\A k \in Slots :
          (/\ tk[k].pc \in {"created", "cu_sending"}
           /\ ev'.k = k /\ ev'.op \in {"run", "catchup_sent"}
           /\ faults' = faults)
          => /\ \A i \in (Len(tk[k].disp) + 1)..Len(tk'[k].disp) :
                   now < tk'[k].disp[i] + DELIVER_LATE
             /\ tk'[k].cfg.maxOcc = tk[k].cfg.maxOcc
             /\ db[tk[k].nid].live => db'[tk[k].nid].live]_vars

\* C36: the task of a repeating record with max_occurrences = N and no
\* end_time, started by /noti add and never cancelled, does not end on the
\* occurrence limit before its live loop has resolved N occurrences
\* (delivered them or skipped them as too late): a late skip is not counted
\* twice against the limit.  Stated for a task whose catch-up dispatched
\* nothing and for which nothing failed.
C36_LimitAfterNOccurrences ==
    [][\A k \in Slots :
          (/\ Running(k) /\ ev'.k = k /\ tk'[k].pc = "done"
           /\ tk[k].origin = "add" /\ tk[k].rc = 0 /\ faults' = 0
           /\ tk[k].cfg.rep /\ tk[k].cfg.endT = None
           /\ orig[tk[k].nid].maxOcc # None)
          => tk'[k].occ >= orig[tk[k].nid].maxOcc]_vars

\* C37: when the event loop is fair and time goes on, no task is cancelled
\* and sqlite does not fail, the task of every one-off record eventually
\* ends with the record deleted from the table.
C37_OneOffEnds ==
    \A k \in Slots :
        (Running(k) /\ ~tk[k].cfg.rep)
            ~> (tk[k].pc = "done" /\ ~db[tk[k].nid].live)

C37_Witness ==
    \E k \in Slots :
        /\ tk[k].pc = "done" /\ ~tk[k].cfg.rep
        /\ ev.k = k /\ ev.op = "live_sent"
        /\ orig[tk[k].nid].live /\ ~db[tk[k].nid].live
        /\ Len(sent[tk[k].nid]) = 1
        /\ sent[tk[k].nid][1].t = tk[k].cfg.start

\* C38: when the event loop is fair and time goes on, no task is cancelled
\* and sqlite does not fail, the task of every repeating record that has an
\* end_time eventually ends and the record is deleted from the table: its
\* live loop makes finitely many iterations.
C38_EndTimeEnds ==
    \A k \in Slots :
        (Running(k) /\ Repeating(tk[k].cfg) /\ tk[k].cfg.endT # None)
            ~> (tk[k].pc = "done" /\ ~db[tk[k].nid].live)

C38_Witness ==
    \E k \in Slots :
        /\ tk[k].pc = "done"
        /\ Repeating(tk[k].cfg) /\ tk[k].cfg.endT = MaxEnd
        /\ tk[k].cfg.maxOcc = None
        /\ tk[k].cfg.start = 0 /\ tk[k].cfg.iv = 1
        /\ tk[k].occ = MaxEnd + 1
        /\ tk[k].sched = MaxEnd
        /\ orig[tk[k].nid].live /\ ~db[tk[k].nid].live

====
